---- MODULE Spec2Model ----
(***************************************************************************)
(* GemNet: the streaming session coordinator.                              *)
(*                                                                         *)
(* GeminiWorker.run (one per session, on its own QThread) emits started /  *)
(* chunk_received / finished / error.  The signals are queued connections  *)
(* to slots of GeminiController, which lives on the UI thread, so every    *)
(* emission is an entry of the UI thread's event queue; the controller     *)
(* re-emits them to MainWindow, whose handlers route them to the editor    *)
(* pane, the chat pane or the file-creation buffer and maintain            *)
(* current_context.  A chunk is the pair <<session, item index>>, so that  *)
(* the origin and the order of every piece of text in a buffer is visible. *)
(***************************************************************************)
EXTENDS Integers, Sequences, FiniteSets, TLC

\* Bounds of the model.  Under Spec: sessions created, user actions (chat
\* messages and file-browser actions), items of one response stream.  Under
\* SpecWorker, SpecStream and SpecEditor: sessions created, items of one
\* response stream (SpecEditor and SpecPrompt also bound the user actions
\* by MaxActions).  Under SpecSave: length of a typed name, files written.
\* Under SpecPost: sessions created, items of one response stream.
MaxSessions == 3
MaxActions == 3
MaxItems == 1
MaxRunSessions == 2
MaxRunItems == 2
MaxNameLen == 3
MaxSaves == 3
MaxPostSessions == 3
MaxPostItems == 1

Sessions == 1..MaxSessions
Paths == {"a.py"}
\* the files opened in tabs under SpecEditor
EditorPaths == Paths \cup {"b.py"}
\* every file of the model: d/a.py has the base name of a.py and lies in
\* another directory (it is selected under SpecPrompt only)
AllPaths == EditorPaths \cup {"d/a.py"}
\* what the user may type after /create
RawFilenames == {<<"f", "/", "t">>}

VARIABLES
    current_context,          \* GeminiController.current_context
    _active_worker,           \* GeminiController._active_worker (0 is None)
    _active_thread,           \* GeminiController._active_thread (0 is None)
    _is_configured,           \* GeminiController._is_configured
    selected_model_name,      \* GeminiController.selected_model_name
    workers,                  \* every GeminiWorker/QThread pair ever created
    n_started,                \* how many sessions _stream_gemini_api created
    queue,                    \* queued slot calls pending on the UI thread
    _streaming_file_content,  \* MainWindow._streaming_file_content
    editor,                   \* EditorPane: tabs, current tab, _is_editor_streaming
    chat,                     \* ChatPane: _is_streaming, _current_stream_markdown
    disk,                     \* the writes of _save_generated_file, in order
    ctx_set_at,               \* history: n_started when current_context was established
    n_actions,                \* history: how many user actions were taken
    h,                        \* history: what the last step did
    aborted                   \* the process was ended by Qt (a running QThread destroyed)

vars == <<current_context, _active_worker, _active_thread, _is_configured,
          selected_model_name, workers, n_started, queue,
          _streaming_file_content, editor, chat, disk, ctx_set_at,
          n_actions, h, aborted>>

--------------------------------------------------------------------------
\* Values

NoChunk == <<0, 0>>
\* the text a tab shows when a file has just been opened in it
FileText == <<0, 1>>

EmptyContext == [action |-> "none", filename |-> <<>>, files |-> <<>>, path |-> ""]

IdleWorker ==
    [context_type |-> "", filename |-> <<>>, _is_cancelled |-> FALSE,
     pc |-> "idle", n |-> 0, log |-> <<>>, chunks |-> <<>>,
     block_at |-> 0, quit |-> FALSE, tab_at_start |-> FALSE]

\* GeminiWorker.__init__ (lines 23-30): the thread is started, run has not
\* begun.  n, log, chunks, block_at and tab_at_start are history: the items
\* taken from the response, the signals emitted, the chunks emitted, the
\* position of the first item with a block reason, and whether the editor
\* had a current tab when the session was created.
GeminiWorker(context_type, filename, has_tab) ==
    [IdleWorker EXCEPT !.context_type = context_type, !.filename = filename,
                       !.pc = "start", !.tab_at_start = has_tab]

\* A queued slot call.  type, chunk and context_type are what the slot is
\* called with: context_type is the text of the signal's second argument,
\* which the finished slot parses (empty where the model has no use for
\* the text).  sid, ctx and filename are history: the session that emitted
\* the signal, its destination kind and its filename.
Event(type, s, ctx, filename, chunk) ==
    [type |-> type, sid |-> s, ctx |-> ctx, filename |-> filename, chunk |-> chunk,
     context_type |-> <<>>]

TerminalTypes == {"finished", "error"}

--------------------------------------------------------------------------
\* GeminiWorker.run.  Each operator maps a worker record to the record after
\* the statements it models and the events those statements emit.

Quiet(w) == [w |-> w, out |-> <<>>]

\* signal.emit(...) of a non-terminal signal: one queued call of the
\* controller slot connected to it.
Emit(r, type, s, chunk) ==
    [w   |-> [r.w EXCEPT !.log = Append(@, type),
                         !.chunks = IF type = "chunk" THEN Append(@, chunk) ELSE @],
     out |-> Append(r.out, Event(type, s, r.w.context_type, r.w.filename, chunk))]

\* finished.emit / error.emit: the slot on_stream_finished / on_stream_error
\* and, connected after it, _cleanup_thread.
EmitTerminal(r, type, s, ctx) ==
    [w   |-> [r.w EXCEPT !.log = Append(@, type)],
     out |-> r.out \o <<Event(type, s, ctx, r.w.filename, NoChunk),
                        Event("cleanup", s, ctx, r.w.filename, NoChunk)>>]

Return(r) == [r EXCEPT !.w.pc = "done"]

\* A run whose successful configuration does not emit started.
RunConfigure_NoStarted(w, s, outcome) ==
    CASE outcome = "no_key" ->
            Return(EmitTerminal(Quiet(w), "error", s, w.context_type))
      [] outcome = "api_error" ->
            Return(EmitTerminal(Emit(Quiet(w), "started", s, NoChunk),
                                "error", s, w.context_type))
      [] OTHER ->
            [Quiet(w) EXCEPT !.w.pc = "loop"]

\* lines 36-52: configuration, started.emit, generate_content.
\* outcome "no_key": an exception before started.emit (missing key, configure
\* or GenerativeModel failing); "api_error": generate_content raises;
\* "ok": the response iterator is obtained.
RunConfigure(w, s, outcome) ==
    CASE outcome = "no_key" ->
            Return(EmitTerminal(Quiet(w), "error", s, w.context_type))
      [] outcome = "api_error" ->
            Return(EmitTerminal(Emit(Quiet(w), "started", s, NoChunk),
                                "error", s, w.context_type))
      [] OTHER ->
            [Emit(Quiet(w), "started", s, NoChunk) EXCEPT !.w.pc = "loop"]

\* A cancellation check that emits error without leaving the loop.
RunCancelled_NoBreak(w, s) ==
    EmitTerminal(Quiet(w), "error", s, w.context_type)

\* lines 57-62: the cancellation flag is seen at the head of an iteration.
RunCancelled(w, s) ==
    Return(EmitTerminal(Quiet(w), "error", s, w.context_type))

\* A block check that forwards the blocked item as a chunk.
RunBlocked_Forward(w, s) ==
    Emit(Quiet(w), "chunk", s, <<s, w.n>>)

\* lines 65-73: the item carries a block reason.
RunBlocked(w, s) ==
    Return(EmitTerminal(Quiet(w), "error", s, w.context_type))

\* lines 75-80: the item's text, when it has one, is forwarded.
RunText(w, s, item) ==
    IF item = "text" THEN Emit(Quiet(w), "chunk", s, <<s, w.n>>) ELSE Quiet(w)

\* lines 56-80: one iteration of `for chunk in response`, for the next item.
RunItem(w0, s, item) ==
    LET w == [w0 EXCEPT !.n = @ + 1,
                        !.block_at = IF item = "block" /\ @ = 0 THEN w0.n + 1 ELSE @]
    IN  IF w._is_cancelled THEN RunCancelled(w, s)
        ELSE IF item = "block" THEN RunBlocked(w, s)
        ELSE RunText(w, s, item)

\* Texts are sequences of characters.  The text of a destination kind:
Chars(context_type) ==
    CASE context_type = "chat" -> <<"c", "h", "a", "t">>
      [] context_type = "editor" -> <<"e", "d", "i", "t", "o", "r">>
      [] context_type = "file_create" ->
            <<"f", "i", "l", "e", "_", "c", "r", "e", "a", "t", "e">>

create_success_colon ==
    <<"c", "r", "e", "a", "t", "e", "_", "s", "u", "c", "c", "e", "s", "s", ":">>

\* str.startswith
startswith(text, prefix) ==
    Len(text) >= Len(prefix) /\ SubSeq(text, 1, Len(prefix)) = prefix

\* str.split(sep, 1): the list of the parts, cut at the first sep only
split_1(text, sep) ==
    LET at == {i \in 1..Len(text) : text[i] = sep}
    IN  IF at = {} THEN <<text>>
        ELSE LET first == CHOOSE i \in at : \A j \in at : i <= j
             IN  <<SubSeq(text, 1, first - 1), SubSeq(text, first + 1, Len(text))>>

\* A final context that tags every file_create stream, named or not.
final_context_type_AlwaysTag(w) ==
    IF w.context_type = "file_create"
    THEN create_success_colon \o w.filename
    ELSE Chars(w.context_type)

\* lines 85-88: f"create_success:{self.filename}" or self.context_type
final_context_type(w) ==
    IF w.context_type = "file_create" /\ w.filename # <<>>
    THEN create_success_colon \o w.filename
    ELSE Chars(w.context_type)

\* The destination kind handle_stream_finished (main.py lines 291, 324-342)
\* takes a finished event's context_type for.
FinishedKind(context_type) ==
    IF startswith(context_type, create_success_colon) THEN "create_success"
    ELSE IF \E k \in {"chat", "editor", "file_create"} : Chars(k) = context_type
    THEN CHOOSE k \in {"chat", "editor", "file_create"} : Chars(k) = context_type
    ELSE "unknown"

\* the history of lines 85-88: the kind the finished event will be taken for
FinalContextType(w) == FinishedKind(final_context_type(w))

\* lines 83-90: the iterator is exhausted with stream_successful still True.
RunEnd(w, s) ==
    LET r == EmitTerminal(Quiet(w), "finished", s, FinalContextType(w))
    IN  Return([r EXCEPT !.out[1].context_type = final_context_type(w)])

\* lines 94-109: an exception raised while iterating the response.
RunRaise(w, s) ==
    Return(EmitTerminal(Quiet(w), "error", s, w.context_type))

\* lines 114-115
cancel(w) == [w EXCEPT !._is_cancelled = TRUE]

\* QThread.isRunning: from start() until the event loop has been told to quit
\* and run has returned.
isRunning(w) == w.pc # "idle" /\ ~(w.quit /\ w.pc = "done")

--------------------------------------------------------------------------
\* File names are sequences of characters.

AlNum == {"a", "b", "c", "d", "e", "f", "g", "i", "l", "m", "n", "r", "t", "x",
          "1", "2", "3", "4", "5", "6", "7", "8", "9"}

strip(name) ==
    LET idx == {i \in 1..Len(name) : name[i] # " "}
    IN  IF idx = {} THEN <<>>
        ELSE LET lo == CHOOSE i \in idx : \A j \in idx : i <= j
                 hi == CHOOSE i \in idx : \A j \in idx : j <= i
             IN  SubSeq(name, lo, hi)

gemini_generated_ ==
    <<"g", "e", "m", "i", "n", "i", "_", "g", "e", "n", "e", "r", "a", "t", "e", "d", "_">>
dot_txt == <<".", "t", "x", "t">>
gemini_generated_file_txt == gemini_generated_ \o <<"f", "i", "l", "e">> \o dot_txt

\* A /create sanitizer that always wraps the name it keeps.
CreateSafeFilename_Wrap(filename_raw) ==
    LET keep(c) == c \in AlNum \/ c \in {".", "_", "-", " "}
        safe_filename == strip(SelectSeq(filename_raw, keep))
    IN  IF safe_filename = <<>> THEN gemini_generated_file_txt
        ELSE gemini_generated_ \o safe_filename \o dot_txt

\* process_user_chat, lines 506-508: the name /create stores in the context
CreateSafeFilename(filename_raw) ==
    LET keep(c) == c \in AlNum \/ c \in {".", "_", "-", " "}
        safe_filename == strip(SelectSeq(filename_raw, keep))
    IN  IF safe_filename = <<>> THEN gemini_generated_file_txt
        ELSE IF \/ safe_filename \in {<<".">>, <<"_">>, <<"-">>}
                \/ Head(safe_filename) = "."
                \/ safe_filename[Len(safe_filename)] = "."
        THEN gemini_generated_ \o safe_filename \o dot_txt
        ELSE safe_filename

\* A save sanitizer that accepts a name with a leading dot.
SaveSafeFilename_NoDotCheck(filename) ==
    LET keep(c) == c \in AlNum \/ c \in {".", "_", "-"}
        safe_filename == strip(SelectSeq(filename, keep))
    IN  IF safe_filename = <<>> THEN gemini_generated_file_txt ELSE safe_filename

\* _save_generated_file, lines 392-395: the name the file is written under
SaveSafeFilename(filename) ==
    LET keep(c) == c \in AlNum \/ c \in {".", "_", "-"}
        safe_filename == strip(SelectSeq(filename, keep))
    IN  IF safe_filename = <<>> \/ Head(safe_filename) = "."
        THEN gemini_generated_file_txt
        ELSE safe_filename

--------------------------------------------------------------------------
\* ChatPane (chat_pane.py); c is [_is_streaming, _current_stream_markdown,
\* added].  Every stream's sender is "Gemini"; add_message is called with the
\* senders "User", "Error", "Warning" and "GemNet".  added is history: the
\* senders of the messages the running handler has inserted in the
\* transcript, in order.

StreamSender == "Gemini"

_reset_stream_state(c) ==
    [c EXCEPT !._is_streaming = FALSE, !._current_stream_markdown = <<>>]

\* both branches end in _reset_stream_state
_finalize_stream_visuals(c) == _reset_stream_state(c)

add_message(c, sender) ==
    [(IF c._is_streaming /\ sender # StreamSender
      THEN _finalize_stream_visuals(c) ELSE c) EXCEPT !.added = Append(@, sender)]

ChatPane_handle_stream_started(c, context_type) ==
    IF context_type \notin {"chat", "file_create", "create_success"} THEN c
    ELSE [(IF c._is_streaming THEN _finalize_stream_visuals(c) ELSE c)
             EXCEPT !._is_streaming = TRUE, !._current_stream_markdown = <<>>]

ChatPane_handle_stream_chunk(c, chunk) ==
    IF ~c._is_streaming THEN c
    ELSE [c EXCEPT !._current_stream_markdown = Append(@, chunk)]

ChatPane_handle_stream_finished(c, sender) ==
    IF ~c._is_streaming \/ sender # StreamSender THEN c
    ELSE _finalize_stream_visuals(c)

ChatPane_handle_stream_error(c, context_type) ==
    IF context_type \notin {"chat", "file_create"} THEN c
    ELSE _reset_stream_state(add_message(c, "Error"))

--------------------------------------------------------------------------
\* EditorPane (editor_pane.py); e is [tabs, current, _is_editor_streaming],
\* tabs maps a path to [open, text, is_modified], current is the path of
\* tab_widget.currentWidget() or "none".

ClosedTab == [open |-> FALSE, text |-> <<>>, is_modified |-> FALSE]

\* open_files([path]): the tabs afterwards and the list it returns
\* (newly_opened_paths).  readable: the file could be read and decoded.
open_files(e, path, isfile, readable) ==
    IF ~isfile THEN [e |-> e, opened |-> <<>>]
    ELSE IF e.tabs[path].open
         THEN [e |-> [e EXCEPT !.current = path], opened |-> <<>>]
    ELSE IF ~readable THEN [e |-> e, opened |-> <<>>]
    ELSE [e |-> [e EXCEPT !.tabs[path] = [open |-> TRUE, text |-> <<FileText>>,
                                          is_modified |-> FALSE],
                          !.current = path],
          opened |-> <<path>>]

get_current_content(e) ==
    IF e.current = "none" THEN <<>> ELSE e.tabs[e.current].text

HasCurrentTab(e) == e.current # "none"

\* EditorPane.mark_tab_modified (lines 135-148), the slot of the tabs'
\* textChanged signal
mark_tab_modified(e) ==
    IF HasCurrentTab(e) /\ ~e._is_editor_streaming
    THEN [e EXCEPT !.tabs[e.current].is_modified = TRUE]
    ELSE e

\* The text of a tab was changed: textChanged is emitted unless the
\* widget's signals are blocked.
textChanged(e, blockSignals) == IF blockSignals THEN e ELSE mark_tab_modified(e)

\* EditorPane.handle_stream_started (lines 271-292)
EditorPane_handle_stream_started(e, context_type) ==
    IF context_type # "editor" THEN e
    ELSE IF HasCurrentTab(e)
         THEN textChanged([e EXCEPT !._is_editor_streaming = TRUE,
                                    !.tabs[e.current].text = <<>>], TRUE)
         ELSE e

\* A chunk handler that inserts the chunk at the start of the text.
EditorPane_handle_stream_chunk_AtStart(e, chunk) ==
    IF ~e._is_editor_streaming THEN e
    ELSE IF HasCurrentTab(e)
         THEN textChanged([e EXCEPT !.tabs[e.current].text = <<chunk>> \o @], TRUE)
         ELSE e

\* EditorPane.handle_stream_chunk (lines 294-308): the cursor is moved to
\* the end and the chunk inserted, with the widget's signals blocked.
EditorPane_handle_stream_chunk(e, chunk) ==
    IF ~e._is_editor_streaming THEN e
    ELSE IF HasCurrentTab(e)
         THEN textChanged([e EXCEPT !.tabs[e.current].text = Append(@, chunk)], TRUE)
         ELSE e

EditorPane_handle_stream_finished(e, context_type) ==
    IF context_type # "editor" \/ ~e._is_editor_streaming THEN e
    ELSE IF HasCurrentTab(e)
         THEN [e EXCEPT !._is_editor_streaming = FALSE,
                        !.tabs[e.current].is_modified = TRUE]
         ELSE [e EXCEPT !._is_editor_streaming = FALSE]

EditorPane_handle_stream_error(e, context_type) ==
    IF context_type # "editor" THEN e
    ELSE IF HasCurrentTab(e) /\ e.tabs[e.current].text # <<>>
         THEN [e EXCEPT !._is_editor_streaming = FALSE,
                        !.tabs[e.current].is_modified = TRUE]
         ELSE [e EXCEPT !._is_editor_streaming = FALSE]

--------------------------------------------------------------------------
\* The UI thread.  m is the record of everything the UI thread's code reads
\* and writes (the fields are the variables of the same names, err_before
\* and err_after are the history of handle_stream_error in the current
\* step, errors the destination kinds of the error events it was given, in
\* order, prompt what the prompt built in the step contains (the chat
\* message, or the content to edit and the context files), op is the
\* user's action the step handles); a handler maps m to the m it leaves.

\* GeminiController.set_context (lines 601-605)
set_context(m, context) ==
    [m EXCEPT !.current_context = context,
              !.ctx_set_at = IF context.action = "none" THEN 0 ELSE m.n_started]

\* An error handler that clears only the editing contexts, as the editor
\* branch of handle_stream_finished does.
ClearContextOnError_OnlyEditing(m, context_type) ==
    IF m.current_context.action \in {"edit", "edit_editor"}
    THEN set_context(m, EmptyContext) ELSE m

\* MainWindow.handle_stream_error, lines 372-374
ClearContextOnError(m, context_type) == set_context(m, EmptyContext)

\* An error handler that leaves the file-create buffer as it is.
MainWindow_handle_stream_error_KeepBuffer(m, context_type) ==
    LET ui == IF context_type = "create_success" THEN "file_create" ELSE context_type
        m1 == IF ui = "editor"
              THEN [m EXCEPT !.editor = EditorPane_handle_stream_error(@, ui)]
              ELSE IF ui \in {"chat", "file_create"}
              THEN [m EXCEPT !.chat = ChatPane_handle_stream_error(@, ui)]
              ELSE [m EXCEPT !.chat = add_message(@, "Error")]
        m3 == ClearContextOnError(m1, context_type)
    IN  [m3 EXCEPT !.err_before = @ \cup {m.current_context.action},
                   !.err_after = @ \cup {m3.current_context.action},
                   !.errors = Append(@, context_type)]

\* MainWindow.handle_stream_error (main.py lines 347-374)
MainWindow_handle_stream_error(m, context_type) ==
    LET ui == IF context_type = "create_success" THEN "file_create" ELSE context_type
        m1 == IF ui = "editor"
              THEN [m EXCEPT !.editor = EditorPane_handle_stream_error(@, ui)]
              ELSE IF ui \in {"chat", "file_create"}
              THEN [m EXCEPT !.chat = ChatPane_handle_stream_error(@, ui)]
              ELSE [m EXCEPT !.chat = add_message(@, "Error")]
        m2 == IF ui = "file_create"
              THEN [m1 EXCEPT !._streaming_file_content = <<>>] ELSE m1
        m3 == ClearContextOnError(m2, context_type)
    IN  [m3 EXCEPT !.err_before = @ \cup {m.current_context.action},
                   !.err_after = @ \cup {m3.current_context.action},
                   !.errors = Append(@, context_type)]

\* MainWindow.handle_stream_started (main.py lines 253-266)
MainWindow_handle_stream_started(m, context_type) ==
    IF context_type = "editor"
    THEN [m EXCEPT !.editor = EditorPane_handle_stream_started(@, context_type)]
    ELSE IF context_type \in {"chat", "file_create"}
    THEN [m EXCEPT !._streaming_file_content =
                       IF context_type = "file_create" THEN <<>> ELSE @,
                   !.chat = ChatPane_handle_stream_started(@, context_type)]
    ELSE m

\* main.py lines 271-273: the destination of a chunk is read from the
\* controller's current worker, whichever worker emitted the chunk.
CurrentStreamContext(m) ==
    IF m._active_worker # 0 THEN m.workers[m._active_worker].context_type ELSE "None"

\* MainWindow.handle_stream_chunk (main.py lines 268-281)
MainWindow_handle_stream_chunk(m, chunk) ==
    LET current_stream_context == CurrentStreamContext(m)
    IN  IF current_stream_context = "editor"
        THEN [m EXCEPT !.editor = EditorPane_handle_stream_chunk(@, chunk)]
        ELSE IF current_stream_context = "file_create"
        THEN [m EXCEPT !._streaming_file_content = Append(@, chunk),
                       !.chat = ChatPane_handle_stream_chunk(@, chunk)]
        ELSE [m EXCEPT !.chat = ChatPane_handle_stream_chunk(@, chunk)]

\* os.path.exists(save_path): d is the history of open(save_path, 'w').
Exists(d, name) == \E i \in 1..Len(d) : d[i].written /\ d[i].filename = name

\* The content of the file called name: open(..., 'w') truncates, so it is
\* what the last successful write to that name wrote.
FileContent(d, name) ==
    LET idx == {i \in 1..Len(d) : d[i].written /\ d[i].filename = name}
    IN  d[CHOOSE i \in idx : \A j \in idx : j <= i].content

\* os.path.splitext of a name that has no separator and no leading dot
splitext(name) ==
    LET dots == {i \in 2..Len(name) : name[i] = "."}
    IN  IF dots = {} THEN [base |-> name, ext |-> <<>>]
        ELSE LET d == CHOOSE i \in dots : \A j \in dots : j <= i
             IN  [base |-> SubSeq(name, 1, d - 1), ext |-> SubSeq(name, d, Len(name))]

\* str(count), for the counts a directory of the model can make necessary
str(count) == << <<"1", "2", "3", "4", "5", "6", "7", "8", "9">>[count] >>

\* f"{base}_{count}{ext}"
Suffixed(name, count) ==
    splitext(name).base \o <<"_">> \o str(count) \o splitext(name).ext

\* main.py lines 403-405: the while loop, entered with this count
RECURSIVE NextFreeName(_, _, _)
NextFreeName(d, safe_filename, count) ==
    IF Exists(d, Suffixed(safe_filename, count))
    THEN NextFreeName(d, safe_filename, count + 1)
    ELSE Suffixed(safe_filename, count)

\* A save that writes under the sanitized name whether or not it exists.
new_filename_Overwrite(d, safe_filename) == safe_filename

\* main.py lines 397-408: the name the file is written under
new_filename(d, safe_filename) ==
    IF Exists(d, safe_filename) THEN NextFreeName(d, safe_filename, 1)
    ELSE safe_filename

\* MainWindow._save_generated_file (main.py lines 378-427).  save_ok tells
\* whether open and write succeed ("Created file" is added to the chat) or
\* raise (IOError reaches the caller); either way the attempt is appended
\* to disk.  s is the session whose finished event is being processed.
_save_generated_file(m, s, filename, content, save_ok) ==
    LET safe_filename == SaveSafeFilename(filename)
        m1 == IF Exists(m.disk, safe_filename)
              THEN [m EXCEPT !.chat = add_message(@, "Warning")] ELSE m
        m2 == [m1 EXCEPT !.disk = Append(@, [sid |-> s,
                                             filename |-> new_filename(m.disk, safe_filename),
                                             content |-> content,
                                             written |-> save_ok])]
    IN  IF save_ok THEN [m2 EXCEPT !.chat = add_message(@, "GemNet")] ELSE m2

\* A create_success branch that leaves Context in place after the save.
FinishCreateSuccess_KeepContext(m, s, filename, save_ok) ==
    LET m1 == _save_generated_file(m, s, filename, m._streaming_file_content, save_ok)
    IN  IF save_ok
        THEN [m1 EXCEPT !._streaming_file_content = <<>>,
                        !.chat = ChatPane_handle_stream_finished(@, StreamSender)]
        ELSE set_context([m1 EXCEPT !._streaming_file_content = <<>>], EmptyContext)

\* main.py lines 291-321: the create_success branch; save_ok tells whether
\* _save_generated_file wrote the file or raised IOError.
FinishCreateSuccess(m, s, filename, save_ok) ==
    LET m1 == _save_generated_file(m, s, filename, m._streaming_file_content, save_ok)
    IN  IF save_ok
        THEN LET m2 == [m1 EXCEPT !._streaming_file_content = <<>>,
                                  !.chat = ChatPane_handle_stream_finished(@, StreamSender)]
             IN  IF m2.current_context.action = "creating_file"
                 THEN set_context(m2, EmptyContext) ELSE m2
        ELSE set_context([m1 EXCEPT !._streaming_file_content = <<>>], EmptyContext)

\* An editor branch that leaves the editing Context in place.
FinishEditor_KeepContext(m) ==
    [m EXCEPT !.editor = EditorPane_handle_stream_finished(@, "editor")]

\* main.py lines 324-330
FinishEditor(m) ==
    LET m1 == [m EXCEPT !.editor = EditorPane_handle_stream_finished(@, "editor")]
    IN  IF m1.current_context.action \in {"edit", "edit_editor"}
        THEN set_context(m1, EmptyContext) ELSE m1

\* main.py lines 332-336
FinishChat(m) ==
    set_context([m EXCEPT !.chat = ChatPane_handle_stream_finished(@, StreamSender)],
                EmptyContext)

\* main.py lines 337-341
FinishFileCreate(m) ==
    set_context([m EXCEPT !.chat = ChatPane_handle_stream_finished(@, StreamSender),
                          !._streaming_file_content = <<>>],
                EmptyContext)

\* MainWindow.handle_stream_finished (main.py lines 283-345); context_type
\* is the text the finished signal carries, s the session that emitted it.
MainWindow_handle_stream_finished(m, s, context_type, save_ok) ==
    IF startswith(context_type, create_success_colon)
    THEN LET filename == split_1(context_type, ":")[2]
         IN  FinishCreateSuccess(m, s, filename, save_ok)
    ELSE IF context_type = Chars("editor") THEN FinishEditor(m)
    ELSE IF context_type = Chars("chat") THEN FinishChat(m)
    ELSE IF context_type = Chars("file_create") THEN FinishFileCreate(m)
    ELSE set_context(m, EmptyContext)

--------------------------------------------------------------------------
\* GeminiController (gemini_controller.py)

\* lines 289-296: the previous worker is asked to stop, when the controller
\* still refers to it and its thread is running.
CancelPrevious(m) ==
    IF m._active_thread # 0 /\ isRunning(m.workers[m._active_thread])
       /\ m._active_worker # 0
    THEN [m EXCEPT !.workers[m._active_worker] = cancel(@)]
    ELSE m

\* lines 302-326: a new QThread and GeminiWorker replace the references.
StartWorker(m, context_type, filename) ==
    LET s == m.n_started + 1
    IN  [m EXCEPT !.n_started = s,
                  !.workers = IF s \in DOMAIN @
                              THEN [@ EXCEPT ![s] = GeminiWorker(context_type, filename,
                                                                  HasCurrentTab(m.editor))]
                              ELSE @,
                  !._active_thread = s,
                  !._active_worker = s]

\* A stream request that cancels the previous session before it looks at
\* the configuration.
_stream_gemini_api_CancelFirst(m, context_type, filename) ==
    LET m1 == CancelPrevious(m)
    IN  IF ~m1._is_configured THEN MainWindow_handle_stream_error(m1, context_type)
        ELSE IF m1.selected_model_name = "" THEN MainWindow_handle_stream_error(m1, context_type)
        ELSE StartWorker(m1, context_type, filename)

\* GeminiController._stream_gemini_api (lines 277-326); stream_error is
\* connected directly to MainWindow.handle_stream_error.
_stream_gemini_api(m, context_type, filename) ==
    IF ~m._is_configured THEN MainWindow_handle_stream_error(m, context_type)
    ELSE IF m.selected_model_name = "" THEN MainWindow_handle_stream_error(m, context_type)
    ELSE StartWorker(CancelPrevious(m), context_type, filename)

\* GeminiController._cleanup_thread (lines 357-373)
_cleanup_thread(m) ==
    LET m1 == IF m._active_thread # 0 /\ isRunning(m.workers[m._active_thread])
              THEN [m EXCEPT !.workers[m._active_thread].quit = TRUE]
              ELSE m
    IN  [m1 EXCEPT !._active_thread = 0, !._active_worker = 0]

\* GeminiController.request_explanation (lines 377-394); readable: _read_files
\* returned the content of at least one file.
request_explanation(m, readable) ==
    IF ~readable THEN MainWindow_handle_stream_error(m, "chat")
    ELSE set_context(_stream_gemini_api(m, "chat", <<>>), EmptyContext)

\* os.path.basename
basename(path) == IF path = "d/a.py" THEN "a.py" ELSE path

\* The content of a file is named after its path.
Content(path) == <<"content of", path>>

\* GeminiController._read_files (lines 251-274): the dict of the contents
\* of the paths that could be read (can_read: the paths that exist, are
\* files within the size limits and can be decoded).
_read_files(file_paths, can_read) ==
    [path \in {file_paths[i] : i \in 1..Len(file_paths)} \cap can_read |-> Content(path)]

\* GeminiController._build_edit_prompt (lines 416-437): the prompt holds
\* the content to edit and one "Context File" section for each of
\* other_files
_build_edit_prompt(target_path, target_content, context_files) ==
    LET target_filename == basename(target_path)
        other_files == {path \in DOMAIN context_files : basename(path) # target_filename}
    IN  [target |-> target_content, context |-> other_files]

\* GeminiController.request_edit (lines 397-414)
request_edit(m, file_paths, can_read) ==
    LET contents == _read_files(file_paths, can_read)
    IN  IF DOMAIN contents = {} \/ file_paths = <<>>
        THEN MainWindow_handle_stream_error(m, "editor")
        ELSE IF file_paths[1] \notin DOMAIN contents
        THEN MainWindow_handle_stream_error(m, "editor")
        ELSE _stream_gemini_api(
                [m EXCEPT !.prompt = _build_edit_prompt(file_paths[1], contents[file_paths[1]],
                                                        contents)],
                "editor", <<>>)

\* str.lower() on the first token of a message
lower(token) ==
    CASE token = "/CREATE" -> "/create"
      [] token = "Hello" -> "hello"
      [] OTHER -> token

\* MainWindow.handle_edit_file_requested_from_chat (main.py lines 234-249),
\* the slot of edit_file_requested_from_chat (a direct connection).
handle_edit_file_requested_from_chat(m, full_path, isfile, readable) ==
    LET r == open_files(m.editor, full_path, isfile, readable)
        m1 == [m EXCEPT !.editor = r.e]
    IN  IF isfile /\ r.opened # <<>> THEN m1
        ELSE LET m2 == [m1 EXCEPT !.chat = add_message(@, "Error")]
             IN  IF m2.current_context.action = "edit"
                 THEN set_context(m2, EmptyContext) ELSE m2

\* process_user_chat, lines 444-454
ChatEditInstruction(m, can_read) ==
    LET files == m.current_context.files
    IN  IF files # <<>> THEN request_edit(m, files, can_read)
        ELSE set_context(MainWindow_handle_stream_error(m, "editor"), EmptyContext)

\* process_user_chat, lines 455-467
ChatEditorInstruction(m) ==
    IF HasCurrentTab(m.editor) THEN _stream_gemini_api(m, "editor", <<>>)
    ELSE set_context(MainWindow_handle_stream_error(m, "editor"), EmptyContext)

\* A create branch that starts the session without moving Context to
\* creating_file.
ChatCreateDescription_KeepCreate(m) ==
    LET filename == m.current_context.filename
    IN  IF filename # <<>>
        THEN _stream_gemini_api(m, "file_create", filename)
        ELSE set_context(MainWindow_handle_stream_error(m, "chat"), EmptyContext)

\* process_user_chat, lines 468-494
ChatCreateDescription(m) ==
    LET filename == m.current_context.filename
    IN  IF filename # <<>>
        THEN _stream_gemini_api([m EXCEPT !.current_context.action = "creating_file"],
                                "file_create", filename)
        ELSE set_context(MainWindow_handle_stream_error(m, "chat"), EmptyContext)

\* A command parser whose usage errors clear Context without reporting.
ParseCommand_SilentUsage(m, msg, env) ==
    LET command == lower(msg.token)
        args_str == msg.arg
        usage == set_context(m, EmptyContext)
    IN  CASE command = "/create" ->
                IF args_str # <<>>
                THEN set_context(m, [EmptyContext EXCEPT
                                        !.action = "create",
                                        !.filename = CreateSafeFilename(args_str)])
                ELSE MainWindow_handle_stream_error(m, "chat")
          [] command = "/explain" ->
                IF args_str # <<>> /\ env.isfile
                THEN request_explanation(set_context(m, EmptyContext), env.readable)
                ELSE usage
          [] command = "/edit" ->
                IF args_str # <<>> /\ env.isfile
                THEN set_context(
                        handle_edit_file_requested_from_chat(m, env.path, TRUE, env.readable),
                        [EmptyContext EXCEPT !.action = "edit", !.files = <<env.path>>])
                ELSE usage
          [] command = "/explain_editor" ->
                IF HasCurrentTab(m.editor)
                THEN _stream_gemini_api(set_context(m, EmptyContext), "chat", <<>>)
                ELSE usage
          [] command = "/edit_editor" ->
                IF HasCurrentTab(m.editor)
                THEN set_context(m, [EmptyContext EXCEPT !.action = "edit_editor",
                                                         !.path = m.editor.current])
                ELSE usage
          [] OTHER ->
                _stream_gemini_api([set_context(m, EmptyContext) EXCEPT !.prompt = msg],
                                   "chat", <<>>)

\* A command parser that compares the first token as it was typed.
ParseCommand_CaseSensitive(m, msg, env) ==
    LET command == msg.token
        args_str == msg.arg
        usage == set_context(MainWindow_handle_stream_error(m, "chat"), EmptyContext)
    IN  CASE command = "/create" ->
                IF args_str # <<>>
                THEN set_context(m, [EmptyContext EXCEPT
                                        !.action = "create",
                                        !.filename = CreateSafeFilename(args_str)])
                ELSE MainWindow_handle_stream_error(m, "chat")
          [] command = "/explain" ->
                IF args_str # <<>> /\ env.isfile
                THEN request_explanation(set_context(m, EmptyContext), env.readable)
                ELSE usage
          [] command = "/edit" ->
                IF args_str # <<>> /\ env.isfile
                THEN set_context(
                        handle_edit_file_requested_from_chat(m, env.path, TRUE, env.readable),
                        [EmptyContext EXCEPT !.action = "edit", !.files = <<env.path>>])
                ELSE usage
          [] command = "/explain_editor" ->
                IF HasCurrentTab(m.editor)
                THEN _stream_gemini_api(set_context(m, EmptyContext), "chat", <<>>)
                ELSE usage
          [] command = "/edit_editor" ->
                IF HasCurrentTab(m.editor)
                THEN set_context(m, [EmptyContext EXCEPT !.action = "edit_editor",
                                                         !.path = m.editor.current])
                ELSE usage
          [] OTHER ->
                _stream_gemini_api([set_context(m, EmptyContext) EXCEPT !.prompt = msg],
                                   "chat", <<>>)

\* process_user_chat, lines 496-598: command parsing.  msg is [token, arg]:
\* the first whitespace-delimited token and the stripped remainder; env tells
\* what the file system answers (isfile, readable).
ParseCommand(m, msg, env) ==
    LET command == lower(msg.token)
        args_str == msg.arg
        usage == set_context(MainWindow_handle_stream_error(m, "chat"), EmptyContext)
    IN  CASE command = "/create" ->
                IF args_str # <<>>
                THEN set_context(m, [EmptyContext EXCEPT
                                        !.action = "create",
                                        !.filename = CreateSafeFilename(args_str)])
                ELSE MainWindow_handle_stream_error(m, "chat")
          [] command = "/explain" ->
                IF args_str # <<>> /\ env.isfile
                THEN request_explanation(set_context(m, EmptyContext), env.readable)
                ELSE usage
          [] command = "/edit" ->
                IF args_str # <<>> /\ env.isfile
                THEN set_context(
                        handle_edit_file_requested_from_chat(m, env.path, TRUE, env.readable),
                        [EmptyContext EXCEPT !.action = "edit", !.files = <<env.path>>])
                ELSE usage
          [] command = "/explain_editor" ->
                IF HasCurrentTab(m.editor)
                THEN _stream_gemini_api(set_context(m, EmptyContext), "chat", <<>>)
                ELSE usage
          [] command = "/edit_editor" ->
                IF HasCurrentTab(m.editor)
                THEN set_context(m, [EmptyContext EXCEPT !.action = "edit_editor",
                                                         !.path = m.editor.current])
                ELSE usage
          [] OTHER ->
                _stream_gemini_api([set_context(m, EmptyContext) EXCEPT !.prompt = msg],
                                   "chat", <<>>)

\* GeminiController.process_user_chat (lines 439-598)
process_user_chat(m, msg, env) ==
    LET action == m.current_context.action
    IN  CASE action = "edit" ->
                ChatEditInstruction(m, IF env.readable THEN AllPaths ELSE {})
          [] action = "edit_editor" -> ChatEditorInstruction(m)
          [] action = "create" -> ChatCreateDescription(m)
          [] OTHER -> ParseCommand(m, msg, env)

\* ChatPane.send_message (chat_pane.py lines 202-219): the message is echoed,
\* then user_message_submitted reaches MainWindow.handle_chat_message.
send_message(m, msg, env) ==
    process_user_chat([m EXCEPT !.chat = add_message(@, "User")], msg, env)

\* MainWindow.handle_edit_request (main.py lines 207-227)
handle_edit_request(m, file_paths, isfile, readable) ==
    IF file_paths = <<>> THEN set_context(m, EmptyContext)
    ELSE LET r == open_files(m.editor, file_paths[1], isfile, readable)
             m1 == [m EXCEPT !.editor = r.e]
         IN  IF r.opened = <<>> \/ r.opened[1] # file_paths[1]
             THEN set_context([m1 EXCEPT !.chat = add_message(@, "Error")], EmptyContext)
             ELSE [set_context(m1, [EmptyContext EXCEPT !.action = "edit",
                                                        !.files = file_paths])
                      EXCEPT !.chat = add_message(@, "GemNet")]

\* MainWindow.handle_explain_request (main.py lines 200-205)
handle_explain_request(m, readable) ==
    request_explanation([m EXCEPT !.chat = add_message(@, "User")], readable)

\* GeminiController.update_available_models (lines 185-226), its effect on
\* selected_model_name; found: list_models returned a usable model.
update_available_models(m, found, raised) ==
    IF ~m._is_configured \/ raised THEN m
    ELSE IF ~found THEN [m EXCEPT !.selected_model_name = ""]
    ELSE IF m.selected_model_name # "gemini-1.5-flash-latest"
    THEN [m EXCEPT !.selected_model_name = "gemini-1.5-flash-latest"]
    ELSE m

--------------------------------------------------------------------------
\* The state machine

\* history of a step that handles no user action
NoOp == [token |-> "", arg |-> <<>>]

Main ==
    [current_context |-> current_context, _active_worker |-> _active_worker,
     _active_thread |-> _active_thread, _is_configured |-> _is_configured,
     selected_model_name |-> selected_model_name, workers |-> workers,
     n_started |-> n_started, _streaming_file_content |-> _streaming_file_content,
     editor |-> editor,
     chat |-> [_is_streaming |-> chat._is_streaming,
               _current_stream_markdown |-> chat._current_stream_markdown,
               added |-> <<>>],
     disk |-> disk, ctx_set_at |-> ctx_set_at,
     err_before |-> {}, err_after |-> {}, errors |-> <<>>, prompt |-> NoOp,
     op |-> NoOp]

\* The UI thread's step leaves m; a step may not create more than
\* MaxSessions sessions.
Commit(m) ==
    /\ ~aborted
    /\ aborted' = aborted
    /\ m.n_started <= MaxSessions
    /\ current_context' = m.current_context
    /\ _active_worker' = m._active_worker
    /\ _active_thread' = m._active_thread
    /\ _is_configured' = m._is_configured
    /\ selected_model_name' = m.selected_model_name
    /\ workers' = m.workers
    /\ n_started' = m.n_started
    /\ _streaming_file_content' = m._streaming_file_content
    /\ editor' = m.editor
    /\ chat' = [_is_streaming |-> m.chat._is_streaming,
                _current_stream_markdown |-> m.chat._current_stream_markdown]
    /\ disk' = m.disk
    /\ ctx_set_at' = m.ctx_set_at
    /\ h' = [err_before |-> m.err_before, err_after |-> m.err_after,
             added |-> m.chat.added, op |-> m.op]

Tokens == {"/create", "/CREATE", "/explain", "/edit", "/explain_editor",
           "/edit_editor", "Hello", "/help"}

Envs == [isfile : BOOLEAN, readable : BOOLEAN, path : Paths]

Init ==
    /\ current_context = EmptyContext
    /\ _active_worker = 0
    /\ _active_thread = 0
    /\ _is_configured \in BOOLEAN
    /\ selected_model_name \in
          IF _is_configured THEN {"gemini-1.5-flash-latest", ""}
          ELSE {"gemini-1.5-flash-latest"}
    /\ workers = [s \in Sessions |-> IdleWorker]
    /\ n_started = 0
    /\ queue = <<>>
    /\ _streaming_file_content = <<>>
    /\ editor = [tabs |-> [p \in AllPaths |-> ClosedTab], current |-> "none",
                 _is_editor_streaming |-> FALSE]
    /\ chat = [_is_streaming |-> FALSE, _current_stream_markdown |-> <<>>]
    /\ disk = <<>>
    /\ ctx_set_at = 0
    /\ n_actions = 0
    /\ h = [err_before |-> {}, err_after |-> {}, added |-> <<>>, op |-> NoOp]
    /\ aborted = FALSE

\* A user action: its handler runs on the UI thread.
UserAction(m) ==
    /\ n_actions < MaxActions
    /\ n_actions' = n_actions + 1
    /\ Commit(m)
    /\ UNCHANGED queue

\* A queued slot call: the UI thread runs the handler of the event at the head.
Deliver(m) ==
    /\ Commit(m)
    /\ queue' = Tail(queue)
    /\ UNCHANGED n_actions

\* The user submits a chat message.
UserChat ==
    \E token \in Tokens, arg \in RawFilenames \cup {<<>>}, env \in Envs :
        UserAction(send_message([Main EXCEPT !.op = [token |-> token, arg |-> arg]],
                                [token |-> token, arg |-> arg], env))

\* The file browser's "Edit" on the selected files.
FileEdit ==
    \E path \in Paths, isfile \in BOOLEAN, readable \in BOOLEAN :
        UserAction(handle_edit_request([Main EXCEPT !.op.token = "Edit"],
                                       <<path>>, isfile, readable))

\* The file browser's "Explain" on the selected files.
FileExplain ==
    \E readable \in BOOLEAN :
        UserAction(handle_explain_request([Main EXCEPT !.op.token = "Explain"], readable))

\* The file browser's "Open" (open_files_requested is connected to open_files).
FileOpen ==
    \E path \in Paths, readable \in BOOLEAN :
        UserAction([Main EXCEPT !.editor = open_files(@, path, TRUE, readable).e,
                                !.op.token = "Open"])

\* Model > Refresh Model List
RefreshModels ==
    \E found \in BOOLEAN, raised \in BOOLEAN :
        UserAction(update_available_models([Main EXCEPT !.op.token = "Refresh"],
                                           found, raised))

\* A worker step whose events overtake the slot calls already queued.
WorkerStep_Overtake(s, r) ==
    /\ ~aborted
    /\ workers' = [workers EXCEPT ![s] = r.w]
    /\ queue' = r.out \o queue
    /\ h' = [err_before |-> {}, err_after |-> {}, added |-> <<>>, op |-> NoOp]
    /\ UNCHANGED <<current_context, _active_worker, _active_thread, _is_configured,
                   selected_model_name, n_started, _streaming_file_content, editor,
                   chat, disk, ctx_set_at, n_actions, aborted>>

\* A worker step that empties the file-create buffer itself.
WorkerStep_ClearsBuffer(s, r) ==
    /\ ~aborted
    /\ workers' = [workers EXCEPT ![s] = r.w]
    /\ queue' = queue \o r.out
    /\ h' = [err_before |-> {}, err_after |-> {}, added |-> <<>>, op |-> NoOp]
    /\ _streaming_file_content' = <<>>
    /\ UNCHANGED <<current_context, _active_worker, _active_thread, _is_configured,
                   selected_model_name, n_started, editor,
                   chat, disk, ctx_set_at, n_actions, aborted>>

\* A worker thread's steps.
WorkerStep(s, r) ==
    /\ ~aborted
    /\ workers' = [workers EXCEPT ![s] = r.w]
    /\ queue' = queue \o r.out
    /\ h' = [err_before |-> {}, err_after |-> {}, added |-> <<>>, op |-> NoOp]
    /\ UNCHANGED <<current_context, _active_worker, _active_thread, _is_configured,
                   selected_model_name, n_started, _streaming_file_content, editor,
                   chat, disk, ctx_set_at, n_actions, aborted>>

WorkerConfigure(s) ==
    /\ workers[s].pc = "start"
    /\ \E outcome \in {"ok", "no_key", "api_error"} :
          WorkerStep(s, RunConfigure(workers[s], s, outcome))

\* The response yields its next item; a response has at most limit items.
WorkerItemUpTo(s, limit) ==
    /\ workers[s].pc = "loop"
    /\ workers[s].n < limit
    /\ \E item \in {"text", "notext", "block"} :
          WorkerStep(s, RunItem(workers[s], s, item))

WorkerItem(s) == WorkerItemUpTo(s, MaxItems)

WorkerEnd(s) ==
    /\ workers[s].pc = "loop"
    /\ WorkerStep(s, RunEnd(workers[s], s))

WorkerRaise(s) ==
    /\ workers[s].pc = "loop"
    /\ WorkerStep(s, RunRaise(workers[s], s))

\* The UI thread's event loop runs the queued slot call at the head.
DeliverStarted ==
    /\ queue # <<>> /\ Head(queue).type = "started"
    /\ Deliver(MainWindow_handle_stream_started(Main, Head(queue).ctx))

DeliverChunk ==
    /\ queue # <<>> /\ Head(queue).type = "chunk"
    /\ Deliver(MainWindow_handle_stream_chunk(Main, Head(queue).chunk))

DeliverFinished ==
    /\ queue # <<>> /\ Head(queue).type = "finished"
    /\ \E save_ok \in BOOLEAN :
          Deliver(MainWindow_handle_stream_finished(Main, Head(queue).sid,
                                                    Head(queue).context_type, save_ok))

DeliverError ==
    /\ queue # <<>> /\ Head(queue).type = "error"
    /\ Deliver(MainWindow_handle_stream_error(Main, Head(queue).ctx))

DeliverCleanup ==
    /\ queue # <<>> /\ Head(queue).type = "cleanup"
    /\ Deliver(_cleanup_thread(Main))

\* _cleanup_thread, lines 361-369, applied to a thread whose worker is
\* still inside run (the references it uses are those of the current
\* session, not of the session whose terminal event queued the call):
\* quit() does not interrupt run, wait(500) may time out, and deleteLater
\* then destroys the QThread object.  Qt ends the process when a QThread
\* is destroyed while its thread is running; when run returns in time the
\* thread has finished and nothing happens.
DestroyRunningThread ==
    /\ ~aborted
    /\ \E s \in Sessions : workers[s].quit /\ workers[s].pc \in {"start", "loop"}
    /\ aborted' = TRUE
    /\ UNCHANGED <<current_context, _active_worker, _active_thread, _is_configured,
                   selected_model_name, workers, n_started, queue,
                   _streaming_file_content, editor, chat, disk, ctx_set_at,
                   n_actions, h>>

Next ==
    \/ UserChat
    \/ FileEdit
    \/ FileExplain
    \/ FileOpen
    \/ RefreshModels
    \/ \E s \in Sessions : WorkerConfigure(s)
    \/ \E s \in Sessions : WorkerItem(s)
    \/ \E s \in Sessions : WorkerEnd(s)
    \/ \E s \in Sessions : WorkerRaise(s)
    \/ DeliverStarted
    \/ DeliverChunk
    \/ DeliverFinished
    \/ DeliverError
    \/ DeliverCleanup
    \/ DestroyRunningThread

Spec == Init /\ [][Next]_vars

\* The scheduler is fair and every response is finite (WorkerItem yields at
\* most MaxItems items): a worker thread that can execute run executes it,
\* and the UI thread's event loop runs the slot call at the head of its
\* queue.  Nothing is assumed of the user, and nothing runs in a process
\* that was ended.
Fairness ==
    /\ \A s \in Sessions : WF_vars(WorkerConfigure(s))
    /\ \A s \in Sessions : WF_vars(WorkerItem(s) \/ WorkerEnd(s) \/ WorkerRaise(s))
    /\ WF_vars(DeliverStarted \/ DeliverChunk \/ DeliverFinished \/ DeliverError
               \/ DeliverCleanup)

SpecLive == Spec /\ Fairness

\* One worker's run against a controller that only starts sessions, each
\* start cancelling the session before it: the first session's worker is
\* the one scheduled, and no queued slot call is run.
StartSession ==
    \E context_type \in {"chat", "editor", "file_create"} :
        /\ Commit(_stream_gemini_api(Main, context_type,
                     IF context_type = "file_create" THEN <<"f">> ELSE <<>>))
        /\ n_started' <= MaxRunSessions
        /\ UNCHANGED <<queue, n_actions>>

WorkerRunItem(s) == WorkerItemUpTo(s, MaxRunItems)

NextWorker ==
    \/ StartSession
    \/ WorkerConfigure(1)
    \/ WorkerRunItem(1)
    \/ WorkerEnd(1)
    \/ WorkerRaise(1)

SpecWorker == Init /\ [][NextWorker]_vars

\* Sessions started back to back, every worker scheduled and every queued
\* slot call run: responses of up to MaxRunItems items, no other user action.
NextStream ==
    \/ StartSession
    \/ \E s \in 1..MaxRunSessions : WorkerConfigure(s)
    \/ \E s \in 1..MaxRunSessions : WorkerRunItem(s)
    \/ \E s \in 1..MaxRunSessions : WorkerEnd(s)
    \/ \E s \in 1..MaxRunSessions : WorkerRaise(s)
    \/ DeliverStarted
    \/ DeliverChunk
    \/ DeliverFinished
    \/ DeliverError
    \/ DeliverCleanup
    \/ DestroyRunningThread

SpecStream == Init /\ [][NextStream]_vars

\* The queues that posting the events out from the thread of worker s can
\* leave.  An emit posts one event for each connected slot, one post after
\* the other, and each post appends to the UI thread's queue: the posts of
\* two threads interleave, so that out may come to lie between the terminal
\* event of another worker and the _cleanup_thread call posted with it.
Post(q, out, s) ==
    {SubSeq(q, 1, k) \o out \o SubSeq(q, k + 1, Len(q)) :
        k \in {j \in 0..Len(q) :
                  \A i \in (j + 1)..Len(q) : q[i].type = "cleanup" /\ q[i].sid # s}}

\* A worker thread's step whose posts interleave with another thread's.
PostingStep(s, r) ==
    /\ ~aborted
    /\ workers' = [workers EXCEPT ![s] = r.w]
    /\ queue' \in Post(queue, r.out, s)
    /\ h' = [err_before |-> {}, err_after |-> {}, added |-> <<>>, op |-> NoOp]
    /\ UNCHANGED <<current_context, _active_worker, _active_thread, _is_configured,
                   selected_model_name, n_started, _streaming_file_content, editor,
                   chat, disk, ctx_set_at, n_actions, aborted>>

PostConfigure(s) ==
    /\ workers[s].pc = "start"
    /\ \E outcome \in {"ok", "no_key"} :
          PostingStep(s, RunConfigure(workers[s], s, outcome))

PostItem(s) ==
    /\ workers[s].pc = "loop"
    /\ workers[s].n < MaxPostItems
    /\ PostingStep(s, RunItem(workers[s], s, "text"))

StartPostSession ==
    \E context_type \in {"editor", "file_create"} :
        /\ Commit(_stream_gemini_api(Main, context_type,
                     IF context_type = "file_create" THEN <<"f">> ELSE <<>>))
        /\ n_started' <= MaxPostSessions
        /\ UNCHANGED <<queue, n_actions>>

\* Sessions started back to back whose workers fail at the configuration or
\* stream the first items of a response, the posts of the worker threads
\* interleaving.
NextPost ==
    \/ StartPostSession
    \/ \E s \in 1..MaxPostSessions : PostConfigure(s)
    \/ \E s \in 1..MaxPostSessions : PostItem(s)
    \/ DeliverStarted
    \/ DeliverChunk
    \/ DeliverError
    \/ DeliverCleanup

SpecPost == Init /\ [][NextPost]_vars

\* The editor flows: files are opened in tabs (opening a file that has a
\* tab makes that tab the current one), /edit and /edit_editor establish a
\* Context, the next message is the instruction, and the sessions stream
\* responses of up to MaxRunItems items.
OpenOrSelectTab ==
    \E path \in EditorPaths :
        UserAction([Main EXCEPT !.editor = open_files(@, path, TRUE, TRUE).e,
                                !.op.token = "Open"])

EditorChat ==
    \E token \in {"/edit", "/edit_editor", "Hello"}, path \in EditorPaths :
        /\ UserAction(send_message([Main EXCEPT !.op = [token |-> token, arg |-> <<"f">>]],
                                   [token |-> token, arg |-> <<"f">>],
                                   [isfile |-> TRUE, readable |-> TRUE, path |-> path]))
        /\ n_started' <= MaxRunSessions

NextEditor ==
    \/ OpenOrSelectTab
    \/ EditorChat
    \/ \E s \in 1..MaxRunSessions : WorkerConfigure(s)
    \/ \E s \in 1..MaxRunSessions : WorkerRunItem(s)
    \/ \E s \in 1..MaxRunSessions : WorkerEnd(s)
    \/ \E s \in 1..MaxRunSessions : WorkerRaise(s)
    \/ DeliverStarted
    \/ DeliverChunk
    \/ DeliverFinished
    \/ DeliverError
    \/ DeliverCleanup
    \/ DestroyRunningThread

SpecEditor == Init /\ [][NextEditor]_vars

\* The file browser's Edit on a selection of several files, and the
\* instruction that follows it: the selections are the lists of distinct
\* files, and of the selected files any may fail to be read.
EditSelections ==
    {file_paths \in UNION {[1..k -> AllPaths] : k \in 1..Cardinality(AllPaths)} :
        \A i, j \in 1..Len(file_paths) : i # j => file_paths[i] # file_paths[j]}

SelectEdit ==
    \E file_paths \in EditSelections :
        UserAction(handle_edit_request([Main EXCEPT !.op.token = "Edit"],
                                       file_paths, TRUE, TRUE))

EditInstruction ==
    /\ current_context.action = "edit"
    /\ \E can_read \in SUBSET AllPaths :
          UserAction(ChatEditInstruction(
                        [Main EXCEPT !.chat = add_message(@, "User"),
                                     !.op = [token |-> "Hello", arg |-> <<>>]],
                        can_read))

NextPrompt == SelectEdit \/ EditInstruction

SpecPrompt == Init /\ [][NextPrompt]_vars

\* The user's actions alone: sessions are started but no worker is
\* scheduled and no queued slot call is run.
NextChat ==
    \/ UserChat
    \/ FileEdit
    \/ FileExplain
    \/ FileOpen
    \/ RefreshModels

SpecChat == Init /\ [][NextChat]_vars

\* The two filename sanitizers and the save, applied to names drawn from
\* bounded sets: /create with a raw name, and _save_generated_file called
\* with a fixed name or with the name /create stored.
NameChars == {"f", ".", "/", "\\", " ", "_"}

\* args_str: non-empty and stripped
SanitizerInputs ==
    {name \in UNION {[1..k -> NameChars] : k \in 1..MaxNameLen} :
        name[1] # " " /\ name[Len(name)] # " "}

SaveNames == {<<"f">>, <<"f", "_", "1">>}

CreateCommand ==
    /\ current_context.action = "none"
    /\ \E filename_raw \in SanitizerInputs :
          Commit(process_user_chat(Main, [token |-> "/create", arg |-> filename_raw],
                                   CHOOSE env \in Envs : TRUE))
    /\ UNCHANGED <<queue, n_actions>>

\* a save that the file system accepts
SaveFile ==
    /\ Len(disk) < MaxSaves
    /\ \E filename \in SaveNames \cup {current_context.filename} :
          Commit(_save_generated_file(Main, 0, filename, <<FileText>>, TRUE))
    /\ UNCHANGED <<queue, n_actions>>

NextSave == CreateCommand \/ SaveFile

SpecSave == Init /\ [][NextSave]_vars

--------------------------------------------------------------------------
\* Properties

Last(seq) == seq[Len(seq)]
Count(seq, x) == Cardinality({i \in 1..Len(seq) : seq[i] = x})

\* The UI thread runs the queued slot call at the head of the queue.
Delivering == queue # <<>> /\ queue' = Tail(queue)

\* The destination buffer of a session: the current editor tab's text, the
\* file-create buffer or the chat pane's stream buffer.
DestinationBuffer(context_type, e, f, c) ==
    CASE context_type = "editor" -> [p \in Paths |-> e.tabs[p].text]
      [] context_type = "file_create" -> f
      [] OTHER -> c._current_stream_markdown

\* The started event of session s has been emitted and processed.
StartedProcessed(s) ==
    /\ "started" \in {workers[s].log[i] : i \in 1..Len(workers[s].log)}
    /\ ~\E i \in 1..Len(queue) : queue[i].sid = s /\ queue[i].type = "started"

\* C1: stale-session immunity: once the most recently started session B has
\* had its started event processed, processing a chunk or terminal event of
\* an earlier session A leaves B's destination buffer (editor text,
\* file-create buffer or chat stream buffer) unchanged.
C1_StaleSessionImmunity ==
    [][(/\ Delivering
        /\ Head(queue).type \in {"chunk", "finished", "error"}
        /\ Head(queue).sid < n_started
        /\ StartedProcessed(n_started))
       => DestinationBuffer(workers[n_started].context_type, editor',
                            _streaming_file_content', chat')
          = DestinationBuffer(workers[n_started].context_type, editor,
                              _streaming_file_content, chat)]_vars

\* C2: whatever the Context kind, Context is none immediately after every
\* run of MainWindow.handle_stream_error, for worker errors and for errors
\* emitted by the controller itself.
C2_ErrorClearsContext == h.err_after \subseteq {"none"}

C2_Witness ==
    /\ "creating_file" \in h.err_before
    /\ \E s \in Sessions : workers[s].pc = "done" /\ Last(workers[s].log) = "error"

\* C3: processing the terminal event of a superseded session (not the most
\* recently started one) leaves Context unchanged.
C3_StaleTerminalIgnored ==
    [][(/\ Delivering
        /\ Head(queue).type \in TerminalTypes
        /\ Head(queue).sid < n_started)
       => current_context' = current_context]_vars

\* C4: processing the finished event of a chat or editor session does not
\* clear a Context that was established after that session was started.
C4_FinishedKeepsLaterContext ==
    [][(/\ Delivering
        /\ Head(queue).type = "finished"
        /\ Head(queue).ctx \in {"chat", "editor"}
        /\ current_context.action # "none"
        /\ ctx_set_at >= Head(queue).sid)
       => current_context' = current_context]_vars

\* C5: the content written to disk at the successful end of a file_create
\* session is exactly the in-order concatenation of that session's chunks.
C5_FileContentIsOwnChunks ==
    \A i \in 1..Len(disk) : disk[i].content = workers[disk[i].sid].chunks

\* C6: a run emits at most one terminal event and nothing after it, and a
\* run that has returned has emitted exactly one, whatever went wrong in it.
C6_OneTerminalEvent ==
    \A s \in Sessions :
        LET log == workers[s].log
            terminals == {i \in 1..Len(log) : log[i] \in TerminalTypes}
        IN  /\ Cardinality(terminals) <= 1
            /\ \A i \in terminals : i = Len(log)
            /\ workers[s].pc = "done" => Cardinality(terminals) = 1
            /\ terminals # {} => workers[s].pc = "done"

C6_Witness ==
    \E s \in Sessions :
        /\ workers[s].pc = "done"
        /\ workers[s]._is_cancelled
        /\ workers[s].log = <<"started", "chunk", "error">>

\* C7, as stated: every run emits started exactly once, and first, also the
\* runs that end with error.
C7_StartedAlwaysFirst ==
    \A s \in Sessions :
        workers[s].pc = "done"
        => Count(workers[s].log, "started") = 1 /\ Head(workers[s].log) = "started"

\* C7, amended: started is emitted at most once and before every chunk and
\* finished event; a run that has returned either emitted started first and
\* once, or failed before the API call and emitted error alone.
C7_StartedFirstUnlessConfigFails ==
    \A s \in Sessions :
        LET log == workers[s].log
        IN  /\ Count(log, "started") <= 1
            /\ log # <<>> => Head(log) = "started" \/ log = <<"error">>
            /\ workers[s].pc = "done"
               => \/ Count(log, "started") = 1 /\ Head(log) = "started"
                  \/ log = <<"error">>

C7_Witness ==
    \E s \in Sessions :
        /\ workers[s].pc = "done"
        /\ workers[s].log = <<"started", "error">>

\* C8: a worker on which cancel() was called before it emitted its terminal
\* event ends with error, never with finished.
C8_CancelledNeverFinishes ==
    [][\A s \in Sessions :
          (/\ workers[s]._is_cancelled
           /\ workers[s].pc # "done"
           /\ workers'[s].pc = "done")
          => Last(workers'[s].log) = "error"]_vars

\* C9: when the item at position k of the response carries a block reason,
\* the worker has emitted exactly one error event, chunks for items before
\* position k only (none when k = 1), and no finished event.
C9_SafetyBlockShortCircuit ==
    \A s \in Sessions :
        LET k == workers[s].block_at
        IN  k # 0 =>
              /\ Count(workers[s].log, "error") = 1
              /\ Count(workers[s].log, "finished") = 0
              /\ \A i \in 1..Len(workers[s].chunks) : workers[s].chunks[i][2] < k
              /\ workers[s].pc = "done"

C9_Witness ==
    \E s \in Sessions :
        /\ workers[s].block_at = 2
        /\ ~workers[s]._is_cancelled
        /\ workers[s].log = <<"started", "chunk", "error">>

C11_CleanupOnlyOwnSession ==
    [][(/\ Delivering
        /\ Head(queue).type = "cleanup"
        /\ _active_worker # 0
        /\ Head(queue).sid # _active_worker)
       => /\ _active_worker' = _active_worker
          /\ _active_thread' = _active_thread
          /\ workers'[_active_worker].quit = workers[_active_worker].quit]_vars

\* The chat messages and file-system answers process_user_chat is given.
Messages == [token : Tokens, arg : RawFilenames \cup {<<>>}]

\* handling the message started a session
StartedSession(m) == m.n_started > n_started

\* C12: while Context is not none (creating_file included), handling a chat
\* message parses no command: it sets no new Context by command and starts
\* no plain-chat session.
C12_ContextMessageIsPayload ==
    \A msg \in Messages, env \in Envs :
        (current_context.action # "none" /\ n_started < MaxSessions) =>
            LET m == process_user_chat(Main, msg, env)
            IN  /\ StartedSession(m) => m.workers[m.n_started].context_type # "chat"
                /\ m.current_context.action
                      \in {"none", "creating_file", current_context.action}

\* C13: when handling the instruction message of an edit or edit_editor
\* Context has started the editor session, Context is none.
C13_EditContextConsumed ==
    \A msg \in Messages, env \in Envs :
        (current_context.action \in {"edit", "edit_editor"} /\ n_started < MaxSessions) =>
            LET m == process_user_chat(Main, msg, env)
            IN  StartedSession(m) => m.current_context.action = "none"

\* C14: with Context create for filename f and the API usable, handling the
\* next chat message starts exactly one session, of destination file_create
\* with filename f, and leaves Context creating_file with the same filename.
C14_CreateFlow ==
    \A msg \in Messages, env \in Envs :
        (/\ current_context.action = "create"
         /\ current_context.filename # <<>>
         /\ _is_configured /\ selected_model_name # ""
         /\ n_started < MaxSessions) =>
            LET m == process_user_chat(Main, msg, env)
                f == current_context.filename
            IN  /\ m.n_started = n_started + 1
                /\ m.workers[m.n_started].context_type = "file_create"
                /\ m.workers[m.n_started].filename = f
                /\ m.workers[m.n_started].pc = "start"
                /\ \A s \in 1..n_started :
                      m.workers[s] = workers[s] \/ m.workers[s] = cancel(workers[s])
                /\ m._active_worker = m.n_started
                /\ m.current_context.action = "creating_file"
                /\ m.current_context.filename = f

C14_Witness ==
    /\ n_started > 0
    /\ current_context.action = "creating_file"
    /\ workers[n_started].context_type = "file_create"
    /\ workers[n_started].filename = current_context.filename
    /\ workers[n_started].pc = "start"

\* C16: when a chat message is handled while Context is not none and no
\* session gets started, Context is none when the handling completes.
C16_NoDanglingContext ==
    \A msg \in Messages, env \in Envs :
        current_context.action # "none" =>
            LET m == process_user_chat(Main, msg, env)
            IN  ~StartedSession(m) => m.current_context.action = "none"

\* The terminal event of session s has been emitted and processed.
TerminalProcessed(s) ==
    /\ workers[s].pc = "done"
    /\ ~\E i \in 1..Len(queue) : queue[i].sid = s /\ queue[i].type \in TerminalTypes

\* C15: between handlers, Context creating_file implies a file_create
\* session that has been started and whose terminal event has not been
\* processed yet.
C15_CreatingFileHasStream ==
    current_context.action = "creating_file" =>
        \E s \in 1..n_started :
            /\ workers[s].context_type = "file_create"
            /\ ~TerminalProcessed(s)

C15_Witness ==
    /\ current_context.action = "creating_file"
    /\ \E s \in 1..n_started :
          /\ workers[s].context_type = "file_create"
          /\ workers[s].log = <<"started", "chunk", "finished">>
          /\ queue # <<>> /\ Head(queue).sid = s /\ Head(queue).type = "finished"

\* C17: when the finished event of a session is processed and the current
\* Context was established before that session was started (no command or
\* file-browser action set it since), Context is none afterwards, for chat,
\* editor and file_create sessions alike.
C17_FinishedClearsOwnContext ==
    [][(/\ Delivering
        /\ Head(queue).type = "finished"
        /\ current_context.action # "none" => ctx_set_at < Head(queue).sid)
       => current_context'.action = "none"]_vars

C17_Witness ==
    /\ current_context.action = "none"
    /\ n_actions = 2
    /\ TerminalProcessed(1)
    /\ workers[1].context_type = "editor"
    /\ Last(workers[1].log) = "finished"

\* C18: the file-create buffer is written to disk only while the successful
\* terminal event of a file_create session is processed, once, as that
\* session's write and with the buffer as content; processing the error of
\* a file_create session writes nothing; after either the buffer is empty.
\* (A write the file system refuses is still that session's one write.)
C18_BufferConsumedOnce ==
    [][IF /\ Delivering
          /\ Head(queue).type = "finished"
          /\ Head(queue).ctx = "create_success"
       THEN /\ Len(disk') = Len(disk) + 1
            /\ SubSeq(disk', 1, Len(disk)) = disk
            /\ Last(disk').sid = Head(queue).sid
            /\ Last(disk').content = _streaming_file_content
            /\ _streaming_file_content' = <<>>
       ELSE /\ disk' = disk
            /\ (/\ Delivering
                /\ Head(queue).type = "error"
                /\ Head(queue).ctx = "file_create")
               => _streaming_file_content' = <<>>]_vars

C18_Witness ==
    \E i \in 1..Len(disk) :
        /\ disk[i].written
        /\ disk[i].content # <<>>
        /\ TerminalProcessed(disk[i].sid)
        /\ workers[disk[i].sid].context_type = "file_create"
        /\ _streaming_file_content = <<>>

\* C19: _save_generated_file never writes to a name that exists when it is
\* called: it writes under the sanitized name when that is free, otherwise
\* under name_k.ext for the smallest k >= 1 that is free, and every file
\* that existed keeps its contents.
C19_CollisionHandling ==
    \A filename \in SaveNames \cup {current_context.filename} :
      LET safe == SaveSafeFilename(filename)
          main == Main
      IN  \A save_ok \in BOOLEAN :
        LET m == _save_generated_file(main, 0, filename, <<FileText>>, save_ok)
            new == Last(m.disk)
        IN  /\ Len(m.disk) = Len(disk) + 1
            /\ ~Exists(disk, new.filename)
            /\ \A i \in 1..Len(disk) :
                  disk[i].written =>
                     FileContent(m.disk, disk[i].filename) = FileContent(disk, disk[i].filename)
            /\ IF ~Exists(disk, safe) THEN new.filename = safe
               ELSE \E k \in 1..9 :
                       /\ new.filename = Suffixed(safe, k)
                       /\ \A j \in 1..(k - 1) : Exists(disk, Suffixed(safe, j))

C19_Witness ==
    /\ Len(disk) = 3
    /\ \A i \in 1..3 : disk[i].written
    /\ disk[1].filename = <<"f", ".", "f">>
    /\ disk[2].filename = <<"f", "_", "1", ".", "f">>
    /\ disk[3].filename = <<"f", "_", "2", ".", "f">>

\* Both sanitizers, applied twice to every input name.
IdempotentOnInputs ==
    \A name \in SanitizerInputs :
        /\ CreateSafeFilename(CreateSafeFilename(name)) = CreateSafeFilename(name)
        /\ SaveSafeFilename(SaveSafeFilename(name)) = SaveSafeFilename(name)

\* C20: both filename sanitizers are idempotent: sanitizing a name they
\* returned returns it unchanged.
C20_SanitizeIdempotent ==
    /\ IdempotentOnInputs
    /\ current_context.action = "create" =>
          LET saved == SaveSafeFilename(current_context.filename)
          IN  /\ CreateSafeFilename(current_context.filename) = current_context.filename
              /\ SaveSafeFilename(saved) = saved
    /\ \A i \in 1..Len(disk) : SaveSafeFilename(disk[i].filename) = disk[i].filename

C20_Witness ==
    /\ current_context.action = "create"
    /\ current_context.filename = gemini_generated_ \o <<".", "f">> \o dot_txt
    /\ \E i \in 1..Len(disk) : disk[i].filename = current_context.filename

\* A name that lies directly inside the directory it is joined to.
PlainName(name) ==
    /\ name # <<>>
    /\ name[1] # "."
    /\ \A i \in 1..Len(name) : name[i] \notin {"/", "\\"}

\* Both sanitizers, applied to every input name.
PlainOnInputs ==
    \A name \in SanitizerInputs :
        /\ PlainName(CreateSafeFilename(name))
        /\ PlainName(SaveSafeFilename(name))
        /\ PlainName(SaveSafeFilename(CreateSafeFilename(name)))

\* C21: whatever name is typed after /create (separators and ".."
\* included), the filename /create stores in Context and the filename
\* _save_generated_file writes under are non-empty, do not start with "."
\* and contain no path separator.
C21_NoPathEscape ==
    /\ PlainOnInputs
    /\ current_context.action = "create" => PlainName(current_context.filename)
    /\ \A i \in 1..Len(disk) : PlainName(disk[i].filename)
    /\ \A filename \in SaveNames \cup {current_context.filename} :
          PlainName(Last(_save_generated_file(Main, 0, filename, <<FileText>>, TRUE).disk).filename)

\* a name made of separators and two dots was typed after /create, and the
\* file was saved twice
C21_Witness ==
    /\ current_context.action = "create"
    /\ current_context.filename = gemini_generated_ \o <<".", ".">> \o dot_txt
    /\ Len(disk) = 2
    /\ disk[1].filename = current_context.filename
    /\ disk[2].filename = gemini_generated_ \o <<".", ".">> \o <<"_", "1">> \o dot_txt

\* the senders of the messages the last step inserted in the transcript
Added == {h.added[i] : i \in 1..Len(h.added)}

\* C22: when the write at the end of a successful file_create stream
\* fails, an error message is added to the chat transcript, the write is
\* attempted once, and the buffer and Context are cleared.
C22_WriteFailureReported ==
    [][(/\ Delivering
        /\ Head(queue).type = "finished"
        /\ Head(queue).ctx = "create_success"
        /\ Len(disk') > Len(disk)
        /\ ~Last(disk').written)
       => /\ "Error" \in Added'
          /\ Len(disk') = Len(disk) + 1
          /\ _streaming_file_content' = <<>>
          /\ current_context'.action = "none"]_vars

\* The message is a command that fails locally: an argument is missing, the
\* named file does not exist, or there is no editor tab.
LocalUsageError(msg, env) ==
    LET command == lower(msg.token)
    IN  \/ command = "/create" /\ msg.arg = <<>>
        \/ command \in {"/explain", "/edit"} /\ (msg.arg = <<>> \/ ~env.isfile)
        \/ command \in {"/explain_editor", "/edit_editor"} /\ ~HasCurrentTab(editor)

EditContextWithoutFiles == [EmptyContext EXCEPT !.action = "edit"]

\* C24: a chat message handled under an edit Context whose target paths
\* are empty is reported as an error through the chat destination (an Error
\* message in the transcript, the editor untouched), starts no session and
\* clears Context.
C24_LostFilesReportedInChat ==
    \A msg \in Messages, env \in Envs :
        LET m == process_user_chat([Main EXCEPT !.current_context = EditContextWithoutFiles],
                                   msg, env)
        IN  /\ m.chat.added = <<"Error">>
            /\ m.editor = editor
            /\ ~StartedSession(m)
            /\ m.current_context.action = "none"

\* C25: the file browser's Edit on an existing, readable file p leaves
\* Context edit with p as first target path, as the chat command /edit p
\* does, whether or not p was open in a tab before.
C25_FileEditSameAsChatEdit ==
    \A p \in Paths :
        LET byBrowser == handle_edit_request(Main, <<p>>, TRUE, TRUE)
            byChat == process_user_chat(Main, [token |-> "/edit", arg |-> <<"f">>],
                                        [isfile |-> TRUE, readable |-> TRUE, path |-> p])
        IN  /\ byBrowser.current_context.action = "edit"
            /\ byBrowser.current_context.files = <<p>>
            /\ current_context.action \notin {"edit", "edit_editor", "create"}
               => byChat.current_context = byBrowser.current_context

\* The events session s has emitted, in order: <<type, chunk>>.
Emitted(s) ==
    LET log == workers[s].log
    IN  [i \in 1..Len(log) |->
            IF log[i] = "chunk"
            THEN <<"chunk", workers[s].chunks[Cardinality({j \in 1..i : log[j] = "chunk"})]>>
            ELSE <<log[i], NoChunk>>]

\* The events of session s that wait for the UI thread, in queue order.
Pending(s) ==
    LET mine(e) == e.sid = s /\ e.type # "cleanup"
        q == SelectSeq(queue, mine)
    IN  [i \in 1..Len(q) |-> <<q[i].type, q[i].chunk>>]

IsSuffix(p, e) ==
    /\ Len(p) <= Len(e)
    /\ p = SubSeq(e, Len(e) - Len(p) + 1, Len(e))

\* C26: the events of a session reach the UI handlers one at a time and in
\* the order the worker emitted them: what waits in the queue is always the
\* tail of what was emitted, a delivery hands over the oldest waiting event
\* of its session and removes that event alone, and a terminal event is
\* the last event of its session.
C26_EventsInOrder ==
    [][\A s \in 1..n_started :
          /\ IsSuffix(Pending(s)', Emitted(s)')
          /\ \A i \in 1..Len(Emitted(s)') :
                Emitted(s)'[i][1] \in TerminalTypes => i = Len(Emitted(s)')
          /\ IF Delivering /\ Head(queue).sid = s /\ Head(queue).type # "cleanup"
             THEN /\ Head(Pending(s)) = <<Head(queue).type, Head(queue).chunk>>
                  /\ Pending(s)' = Tail(Pending(s))
                  /\ Emitted(s)' = Emitted(s)
             ELSE Pending(s)' = Pending(s) \o SubSeq(Emitted(s)', Len(Emitted(s)) + 1,
                                                    Len(Emitted(s)'))]_vars

\* both chunks of a session have been handled, its terminal event waits
C26_Witness ==
    \E s \in Sessions :
        /\ Len(workers[s].chunks) = 2
        /\ Pending(s) = <<<<"finished", NoChunk>>>>

\* The sink handle_stream_chunk forwards to when the destination kind it
\* looks at is context_type.
Sink(context_type) ==
    IF context_type \in {"editor", "file_create"} THEN context_type ELSE "chat"

\* C27: a chunk of the most recently started session is forwarded to the
\* sink of that session's own destination kind, whatever events of earlier
\* sessions were processed before it.
C27_ChunkToOwnSink ==
    (/\ queue # <<>>
     /\ Head(queue).type = "chunk"
     /\ Head(queue).sid = n_started)
    => Sink(CurrentStreamContext(Main)) = Sink(Head(queue).ctx)

\* The step is one of worker s's run: statements of GeminiWorker.run were
\* executed (the position, the items taken or the signals emitted changed).
WorkerRan(s) ==
    /\ workers[s].pc # "idle"
    /\ \/ workers'[s].pc # workers[s].pc
       \/ workers'[s].n # workers[s].n
       \/ workers'[s].log # workers[s].log

\* What a step of run can leave, given the worker's own fields and what the
\* API answers, and nothing else.
WorkerRuns(w, s) ==
    {RunConfigure(w, s, outcome) : outcome \in {"ok", "no_key", "api_error"}}
    \cup {RunItem(w, s, item) : item \in {"text", "notext", "block"}}
    \cup {RunEnd(w, s), RunRaise(w, s)}

\* C28: a step of a worker's run neither depends on nor changes Context,
\* the file-create buffer or anything else the UI thread owns: it changes
\* that worker's own fields (never the cancellation flag) and appends its
\* started / chunk / finished / error events to the queue; a step of the UI
\* thread changes of an existing worker the cancellation flag alone (and
\* tells its thread to quit).
C28_SingleWriter ==
    [][\A s \in Sessions :
          IF WorkerRan(s)
          THEN /\ UNCHANGED <<current_context, _streaming_file_content, _active_worker,
                              _active_thread, _is_configured, selected_model_name,
                              n_started, editor, chat, disk>>
               /\ \A t \in Sessions \ {s} : workers'[t] = workers[t]
               /\ workers'[s]._is_cancelled = workers[s]._is_cancelled
               /\ \E r \in WorkerRuns(workers[s], s) :
                     /\ workers'[s] = r.w
                     /\ queue' = queue \o r.out
                     /\ \A i \in 1..Len(r.out) :
                           /\ r.out[i].sid = s
                           /\ r.out[i].type \in {"started", "chunk", "finished", "error",
                                                  "cleanup"}
          ELSE workers[s].pc # "idle"
               => workers'[s] = [workers[s] EXCEPT !._is_cancelled = workers'[s]._is_cancelled,
                                                     !.quit = workers'[s].quit]]_vars

\* a worker cancelled from outside has run to its error event while Context
\* and the file-create buffer belonged to the session after it
C28_Witness ==
    /\ n_started = 2
    /\ workers[1]._is_cancelled
    /\ workers[1].log = <<"started", "error">>
    /\ workers[2].context_type = "file_create"
    /\ current_context.action = "creating_file"
    /\ _streaming_file_content = workers[2].chunks
    /\ _streaming_file_content # <<>>

\* The sessions whose run has not emitted its terminal event are cancelled
\* in m.
InFlightCancelled(m) ==
    \A s \in 1..n_started :
        workers[s].pc \in {"start", "loop"} => m.workers[s]._is_cancelled

\* C30: when /create, /edit, /edit_editor or the file browser's Edit
\* establishes a Context while an earlier session is in flight, that
\* session's cancellation flag is set.
C30_NewContextCancelsSession ==
    /\ \A msg \in Messages, env \in Envs :
          (/\ current_context.action \notin {"edit", "edit_editor", "create"}
           /\ lower(msg.token) \in {"/create", "/edit", "/edit_editor"}) =>
              LET m == process_user_chat(Main, msg, env)
              IN  m.current_context.action \in {"create", "edit", "edit_editor"}
                  => InFlightCancelled(m)
    /\ \A p \in Paths, isfile \in BOOLEAN, readable \in BOOLEAN :
          LET m == handle_edit_request(Main, <<p>>, isfile, readable)
          IN  m.current_context.action = "edit" => InFlightCancelled(m)

\* C29: with finite responses and a fair scheduler, every session that was
\* started eventually has its terminal event processed by the UI thread,
\* and Context creating_file is always eventually left, whatever the user
\* does or does not do.
C29_EverySessionTerminates ==
    /\ \A s \in Sessions : (workers[s].pc # "idle") ~> TerminalProcessed(s)
    /\ (current_context.action = "creating_file")
          ~> (current_context.action # "creating_file")

\* the destination kinds a stream is requested with
DestinationKinds == {"chat", "editor", "file_create"}

\* C31: a stream requested while the API is not configured or no model is
\* selected results in exactly one error event, carrying the requested
\* destination kind; no worker or thread is created (so no started or chunk
\* event can follow), no session in flight is cancelled, and
\* _active_worker and _active_thread are unchanged.
C31_UnconfiguredStreamOnlyErrors ==
    (~_is_configured \/ selected_model_name = "") =>
        \A context_type \in DestinationKinds, filename \in {<<>>, <<"f">>} :
            LET m == _stream_gemini_api(Main, context_type, filename)
            IN  /\ m.errors = <<context_type>>
                /\ m.workers = workers
                /\ m.n_started = n_started
                /\ m._active_worker = _active_worker
                /\ m._active_thread = _active_thread

\* a chat message was sent after the model list had become empty, while
\* the first session was still running: it was answered with an error and
\* the session goes on
C31_Witness ==
    /\ selected_model_name = ""
    /\ h.op.token = "Hello"
    /\ h.added = <<"User", "Error">>
    /\ n_started = 1
    /\ _active_worker = 1 /\ _active_thread = 1
    /\ workers[1].pc = "loop"
    /\ ~workers[1]._is_cancelled

\* what may be typed after /create, the colon included
RoundTripInputs ==
    {name \in UNION {[1..k -> NameChars \cup {":"}] : k \in 1..MaxNameLen} :
        name[1] # " " /\ name[Len(name)] # " "}

\* The finished event of a worker with this destination kind and filename:
\* what it carries, and what handle_stream_finished extracts from it.
RoundTrip(context_type, filename) ==
    LET w == GeminiWorker(context_type, filename, FALSE)
        carried == RunEnd(w, 1).out[1].context_type
        tagged == startswith(carried, create_success_colon)
    IN  /\ tagged <=> (context_type = "file_create" /\ filename # <<>>)
        /\ tagged => carried = create_success_colon \o filename
        /\ tagged => split_1(carried, ":")[2] = filename
        /\ ~tagged => carried = Chars(context_type)
        /\ ~tagged => FinishedKind(carried) = context_type

RoundTripOnInputs ==
    \A context_type \in DestinationKinds :
        /\ RoundTrip(context_type, <<>>)
        /\ \A name \in RoundTripInputs : RoundTrip(context_type, CreateSafeFilename(name))

\* C32: a finished event carries create_success:<filename> exactly when
\* its worker's destination kind is file_create and its filename is not
\* empty, and the unchanged destination kind otherwise; the filename
\* handle_stream_finished extracts from it and gives _save_generated_file
\* is the worker's filename, for every name the /create sanitizer returns.
C32_FilenameRoundTrip ==
    /\ RoundTripOnInputs
    /\ \A i \in 1..Len(queue) :
          queue[i].type = "finished" =>
             LET w == workers[queue[i].sid]
                 carried == queue[i].context_type
             IN  /\ RoundTrip(w.context_type, w.filename)
                 /\ carried = final_context_type(w)
                 /\ i = 1 /\ startswith(carried, create_success_colon) =>
                       LET m == MainWindow_handle_stream_finished(Main, queue[i].sid,
                                                                  carried, TRUE)
                       IN  /\ Len(m.disk) = Len(disk) + 1
                           /\ Last(m.disk).filename
                                 = new_filename(disk, SaveSafeFilename(w.filename))

\* the file of a /create f/t session was written under the name the
\* worker was given, and the finished event of a chat session waits
C32_Witness ==
    /\ \E i \in 1..Len(disk) :
          /\ disk[i].written
          /\ workers[disk[i].sid].filename = <<"f", "t">>
          /\ disk[i].filename = <<"f", "t">>
    /\ \E i \in 1..Len(queue) :
          /\ queue[i].type = "finished"
          /\ queue[i].context_type = Chars("chat")

\* the commands process_user_chat recognizes
Commands == {"/create", "/explain", "/edit", "/explain_editor", "/edit_editor"}

\* The messages whose first token is not a command, whatever follows it
\* (a command included).
PlainMessages ==
    [token : {t \in Tokens : lower(t) \notin Commands},
     arg : RawFilenames \cup {<<>>, <<"/", "e", "d", "i", "t">>}]

\* what the file system answers about a path: a file that can be read, or
\* no file
FileAnswers == {e \in Envs : e.readable = e.isfile}

\* The first token is compared in lower case: a command typed in capitals
\* is handled as the command.
CommandsCaseInsensitive ==
    current_context.action = "none" =>
        \A msg \in {x \in Messages : lower(x.token) \in Commands /\ lower(x.token) # x.token},
           env \in FileAnswers :
            process_user_chat(Main, msg, env)
               = process_user_chat(Main, [msg EXCEPT !.token = lower(@)], env)

\* C33, as stated: with Context none, every message whose first token is
\* not a command (an unrecognized /... token included) sets Context to
\* none and starts exactly one session, of destination chat, whose prompt
\* contains the whole message.
C33_PlainChatStartsSession ==
    /\ CommandsCaseInsensitive
    /\ (current_context.action = "none" /\ n_started < MaxSessions) =>
          \A msg \in PlainMessages, env \in FileAnswers :
              LET m == process_user_chat(Main, msg, env)
              IN  /\ m.current_context = EmptyContext
                  /\ m.n_started = n_started + 1
                  /\ m.workers[m.n_started].context_type = "chat"
                  /\ m.prompt = msg

\* C33, amended: with Context none, every message whose first token is not
\* a command sets Context to none; when the API is configured and a model
\* is selected it starts exactly one session, of destination chat, whose
\* prompt contains the whole message; otherwise it starts no session and
\* one error event of destination chat is emitted.
C33_PlainChatWhenUsable ==
    /\ CommandsCaseInsensitive
    /\ (current_context.action = "none" /\ n_started < MaxSessions) =>
          \A msg \in PlainMessages, env \in FileAnswers :
              LET m == process_user_chat(Main, msg, env)
              IN  /\ m.current_context = EmptyContext
                  /\ m.prompt = msg
                  /\ IF _is_configured /\ selected_model_name # ""
                     THEN /\ m.n_started = n_started + 1
                          /\ m.workers[m.n_started].context_type = "chat"
                          /\ m.workers[m.n_started].pc = "start"
                          /\ m._active_worker = m.n_started
                          /\ m.errors = <<>>
                     ELSE /\ m.n_started = n_started
                          /\ m.workers = workers
                          /\ m.errors = <<"chat">>

\* /help followed by a name was sent with Context none: a chat session was
\* started
C33_Witness ==
    /\ h.op.token = "/help" /\ h.op.arg # <<>>
    /\ h.added = <<"User">>
    /\ h.err_after = {}
    /\ current_context = EmptyContext
    /\ n_started = 1
    /\ workers[1].context_type = "chat"
    /\ workers[1].pc = "start"

OpenTabs == {p \in EditorPaths : editor.tabs[p].open}

\* how many chunk events of session s wait for the UI thread
PendingChunks(s) ==
    Cardinality({i \in 1..Len(queue) : queue[i].sid = s /\ queue[i].type = "chunk"})

\* Session 1 is an editor session started with a tab open; it is the only
\* session and that tab is the only tab, so that nothing came between its
\* events and their buffer.
SingleEditorSession ==
    /\ n_started = 1
    /\ workers[1].context_type = "editor"
    /\ workers[1].tab_at_start
    /\ OpenTabs = {editor.current}

\* C34: for a single uninterrupted editor session with an open tab, the
\* tab shows the file's text until started is processed, then exactly the
\* chunks processed so far, in order, and after finished all the session's
\* chunks, marked modified; processing started or a chunk does not change
\* the modified mark of any tab.
C34_EditorSinkProtocol ==
    /\ [](SingleEditorSession =>
            LET w == workers[1]
                tab == editor.tabs[editor.current]
            IN  /\ ~StartedProcessed(1) /\ ~TerminalProcessed(1) =>
                      tab.text = <<FileText>>
                /\ StartedProcessed(1) /\ ~TerminalProcessed(1) =>
                      /\ tab.text = SubSeq(w.chunks, 1, Len(w.chunks) - PendingChunks(1))
                      /\ ~tab.is_modified
                /\ TerminalProcessed(1) /\ Last(w.log) = "finished" =>
                      /\ tab.text = w.chunks
                      /\ tab.is_modified)
    /\ [][(Delivering /\ Head(queue).type \in {"started", "chunk"}) =>
             \A p \in EditorPaths : editor'.tabs[p].is_modified = editor.tabs[p].is_modified]_vars

\* both chunks of the only session, an editor session, are the text of the
\* only tab, which is marked modified
C34_Witness ==
    /\ SingleEditorSession
    /\ TerminalProcessed(1)
    /\ workers[1].log = <<"started", "chunk", "chunk", "finished">>
    /\ editor.tabs[editor.current].text = <<<<1, 1>>, <<1, 2>>>>
    /\ editor.tabs[editor.current].is_modified

\* C35: in request_edit the content of the first path is the content to
\* edit, and every other path of target_paths that was read is a context
\* file of the prompt, for every list of distinct paths (two paths with
\* the same base name included).
C35_OtherFilesAreContext ==
    (/\ current_context.action = "edit"
     /\ _is_configured /\ selected_model_name # ""
     /\ n_started < MaxSessions) =>
        LET files == current_context.files
            others == {files[i] : i \in 2..Len(files)}
        IN  \A can_read \in SUBSET AllPaths :
                files[1] \in can_read =>
                    LET m == ChatEditInstruction(Main, can_read)
                    IN  /\ StartedSession(m)
                        /\ m.prompt.target = Content(files[1])
                        /\ m.prompt.context = others \cap can_read

\* A file_create session was started and its terminal event has not been
\* processed.
FileCreateAwaiting ==
    \E s \in 1..n_started :
        workers[s].context_type = "file_create" /\ ~TerminalProcessed(s)

EditTarget ==
    IF current_context.action = "edit" THEN current_context.files[1]
    ELSE current_context.path

\* C37: every started, chunk and finished event of an editor session is
\* applied to the tab of the file named in the editing Context the session
\* was started from, whichever tab is the current one when the event is
\* processed: the tabs afterwards are those the editor's handler leaves
\* when that tab is the current tab.  (The session is the only session, so
\* that the events are its own.)
C37_EditorSessionOneTab ==
    [][(/\ Delivering
        /\ Head(queue).type \in {"started", "chunk", "finished"}
        /\ Head(queue).ctx = "editor"
        /\ n_started = 1
        /\ current_context.action \in {"edit", "edit_editor"}
        /\ ctx_set_at < 1) =>
           LET e == [editor EXCEPT !.current = EditTarget]
               applied ==
                   CASE Head(queue).type = "started" ->
                            EditorPane_handle_stream_started(e, "editor")
                     [] Head(queue).type = "chunk" ->
                            EditorPane_handle_stream_chunk(e, Head(queue).chunk)
                     [] OTHER -> EditorPane_handle_stream_finished(e, "editor")
           IN  editor'.tabs = applied.tabs]_vars

\* C38: while a chat or file_create session is the only session, every
\* chunk of it that the UI thread processes is appended to the streaming
\* region of the chat transcript, whatever messages were submitted or added
\* to the transcript since the session started.
C38_ChunksReachTranscript ==
    [][(/\ Delivering
        /\ Head(queue).type = "chunk"
        /\ n_started = 1
        /\ workers[1].context_type \in {"chat", "file_create"}) =>
           chat'._current_stream_markdown =
               Append(chat._current_stream_markdown, Head(queue).chunk)]_vars

\* C39: once the terminal event of a chat or file_create session has been
\* processed, no other session having been started, the chat transcript is
\* not in streaming state, whether or not the generated file could be
\* written.
C39_TranscriptLeavesStreaming ==
    (/\ n_started = 1
     /\ workers[1].context_type \in {"chat", "file_create"}
     /\ TerminalProcessed(1)) => ~chat._is_streaming

\* C40: for the chat command /edit <name> on an existing file, read as a
\* command (no Context awaits an instruction or a description): Context is
\* none after process_user_chat when open_files opened no path (the file
\* has a tab already, or it cannot be read), and it is the edit Context of
\* that file when the file was opened.
C40_EditContextOnlyWhenOpened ==
    current_context.action \notin {"edit", "edit_editor", "create"} =>
        \A readable \in BOOLEAN, path \in Paths :
            LET msg == [token |-> "/edit", arg |-> <<"f">>]
                env == [isfile |-> TRUE, readable |-> readable, path |-> path]
                opened == open_files(editor, path, TRUE, readable).opened
                m == process_user_chat(Main, msg, env)
            IN  IF opened = <<>>
                THEN m.current_context = EmptyContext
                ELSE m.current_context =
                         [EmptyContext EXCEPT !.action = "edit", !.files = <<path>>]

====
